---------------------------- MODULE Spec2Model ----------------------------
(***************************************************************************)
(* Model of the diligence pipeline of nelano23/teambuild:                  *)
(*   finance.py  burn, runway, downside scenario, analyze_financials       *)
(*   company.py  profile extraction and parsing, competitor lookup         *)
(*   minimax_helper.py  the language-model call wrapper                    *)
(*   memo.py     memo generation and the memo file                         *)
(*   main.py     the console flow                                          *)
(*   app.py      the form-based flow and its stored results                *)
(*                                                                         *)
(* Conventions.  A Python str is a sequence of one-character strings.  A   *)
(* Python float is an exact rational [n, d] (d > 0, lowest terms); cells   *)
(* of a DataFrame are finite numbers.  The outcome of a call is a record   *)
(* [kind |-> "ok", value |-> v] or [kind |-> <exception class>, ...]: a    *)
(* raised exception carries no value field.                                *)
(***************************************************************************)
EXTENDS Integers, Sequences, FiniteSets, TLC

VARIABLES
    pc,       \* "call": the operation is about to run; "done": it has ended
    op,       \* the operation this execution runs
    arg,      \* its arguments
    world,    \* what the environment answered during the execution
    effects,  \* the external effects the execution issued, in order
    ret,      \* its outcome
    locals,         \* the local variables of a pipeline run
    memo_file,      \* the content of diligence_memo.md
    session_state   \* st.session_state of the form-based flow

vars == <<pc, op, arg, world, effects, ret, locals, memo_file, session_state>>

(***************************************************************************)
(* Bounds of the model.                                                    *)
(***************************************************************************)
MaxRows == 3
MaxAmount == 1
MaxItems == 3
MaxCompanies == 13
MaxEntries == 2
PadLen == 520

(***************************************************************************)
(* Outcomes.                                                               *)
(***************************************************************************)
Ok(v) == [kind |-> "ok", value |-> v]

Raise(e) == [kind |-> e]

Pending == [kind |-> "pending"]

Quiet == [kind |-> "none"]

(***************************************************************************)
(* Exact arithmetic for Python floats.                                     *)
(***************************************************************************)
Abs(i) == IF i < 0 THEN -i ELSE i

RECURSIVE GCD(_, _)
GCD(a, b) == IF b = 0 THEN a ELSE GCD(b, a % b)

Rat(n, d) ==
    LET s == IF d < 0 THEN -1 ELSE 1
        g == GCD(Abs(n), Abs(d))
    IN  [n |-> (s * n) \div g, d |-> (s * d) \div g]

FromInt(i) == [n |-> i, d |-> 1]

RatLt(a, b) == a.n * b.d < b.n * a.d

RatMul(a, b) == Rat(a.n * b.n, a.d * b.d)

RatAdd(a, b) == Rat(a.n * b.d + b.n * a.d, a.d * b.d)

RatDiv(a, b) == Rat(a.n * b.d, a.d * b.n)

Zero == FromInt(0)

RECURSIVE SumSeq(_)
SumSeq(s) == IF s = <<>> THEN 0 ELSE Head(s) + SumSeq(Tail(s))

(***************************************************************************)
(* pandas: the DataFrame is [columns, rows]; a row maps each column of the *)
(* frame to its cell.                                                      *)
(***************************************************************************)
Required == {"month", "expenses", "cash_balance"}

DfEmpty(df) == df.columns = {} \/ df.rows = <<>>

\* df[col]: the column as a sequence, KeyError when the frame lacks it
Column(df, col) ==
    IF col \in df.columns
    THEN Ok([i \in 1..Len(df.rows) |-> df.rows[i][col]])
    ELSE Raise("KeyError")

\* Series.mean() of a non-empty numeric column
Mean(s) == Rat(SumSeq(s), Len(s))

ILocFirst(s) == IF s = <<>> THEN Raise("IndexError") ELSE Ok(s[1])

\* Series.iloc[-1]
ILocLast(s) == IF s = <<>> THEN Raise("IndexError") ELSE Ok(s[Len(s)])

(***************************************************************************)
(* finance.py                                                              *)
(***************************************************************************)
MissingColumns_only_expenses(df) == {"expenses"} \ df.columns

\* required - set(df.columns)
MissingColumns(df) == Required \ df.columns

calculate_burn(df) ==
    IF DfEmpty(df) THEN Raise("ValueError")
    ELSE IF MissingColumns(df) # {} THEN Raise("ValueError")
    ELSE LET col == Column(df, "expenses")
         IN  IF col.kind # "ok" THEN col ELSE Ok(Mean(col.value))

calculate_runway_zero_first(cash_balance, monthly_burn) ==
    IF ~RatLt(Zero, monthly_burn) THEN Ok(Zero)
    ELSE IF RatLt(cash_balance, Zero) THEN Raise("ValueError")
    ELSE Ok(RatDiv(cash_balance, monthly_burn))

calculate_runway_unchecked(cash_balance, monthly_burn) ==
    IF monthly_burn = Zero THEN Ok(Zero)
    ELSE Ok(RatDiv(cash_balance, monthly_burn))

calculate_runway(cash_balance, monthly_burn) ==
    IF RatLt(cash_balance, Zero) THEN Raise("ValueError")
    ELSE IF RatLt(monthly_burn, Zero) THEN Raise("ValueError")
    ELSE IF monthly_burn = Zero THEN Ok(Zero)
    ELSE Ok(RatDiv(cash_balance, monthly_burn))

\* the signature's default: increase_percent = 20
DefaultIncreasePercent == 20

simulate_downside_unchecked_percent(monthly_burn, increase_percent) ==
    IF RatLt(monthly_burn, Zero) THEN Raise("ValueError")
    ELSE Ok(RatMul(monthly_burn,
                   RatAdd(FromInt(1), RatDiv(increase_percent, FromInt(100)))))

simulate_downside(monthly_burn, increase_percent) ==
    IF RatLt(monthly_burn, Zero) THEN Raise("ValueError")
    ELSE IF RatLt(increase_percent, Zero) THEN Raise("ValueError")
    ELSE Ok(RatMul(monthly_burn,
                   RatAdd(FromInt(1), RatDiv(increase_percent, FromInt(100)))))

DownsidePercent == 20

\* pd.read_csv with its three handlers (finance.py 95-102)
read_csv(file) ==
    CASE file.kind = "missing" -> Raise("FileNotFoundError")
      [] file.kind = "zero_bytes" -> Raise("ValueError")
      [] file.kind = "unreadable" -> Raise("ValueError")
      [] OTHER -> Ok(file.df)

\* finance.py 112-124, once the frame passed the checks
Metrics(df) ==
    LET burn == calculate_burn(df)
        cashcol == Column(df, "cash_balance")
        last == IF cashcol.kind = "ok" THEN ILocLast(cashcol.value) ELSE cashcol
        cash_balance == FromInt(last.value)
        runway == calculate_runway(cash_balance, burn.value)
        downside_burn == simulate_downside(burn.value, FromInt(DownsidePercent))
        runway_at_downside == calculate_runway(cash_balance, downside_burn.value)
    IN  IF burn.kind # "ok" THEN burn
        ELSE IF last.kind # "ok" THEN last
        ELSE IF runway.kind # "ok" THEN runway
        ELSE IF downside_burn.kind # "ok" THEN downside_burn
        ELSE IF runway_at_downside.kind # "ok" THEN runway_at_downside
        ELSE Ok([burn |-> burn.value,
                 runway |-> runway.value,
                 downside_burn |-> downside_burn.value,
                 runway_at_downside |-> runway_at_downside.value])

analyze_financials(file) ==
    LET read == read_csv(file)
    IN  IF read.kind # "ok" THEN read
        ELSE IF DfEmpty(read.value) THEN Raise("ValueError")
        ELSE IF MissingColumns(read.value) # {} THEN Raise("ValueError")
        ELSE Metrics(read.value)

(***************************************************************************)
(* Python str operations on sequences of characters.                       *)
(***************************************************************************)
Whitespace == {" ", "\n", "\t", "\r"}

SetMin(S) == CHOOSE x \in S : \A y \in S : x <= y

SetMax(S) == CHOOSE x \in S : \A y \in S : x >= y

\* str.strip()
strip(s) ==
    LET keep == {i \in 1..Len(s) : s[i] \notin Whitespace}
    IN  IF keep = {} THEN <<>> ELSE SubSeq(s, SetMin(keep), SetMax(keep))

\* s[:n]
Take(s, n) == SubSeq(s, 1, IF Len(s) < n THEN Len(s) ELSE n)

\* whether pat occurs in s at index i (1-based)
OccursAt(s, pat, i) ==
    /\ i >= 1
    /\ i + Len(pat) - 1 <= Len(s)
    /\ \A k \in 1..Len(pat) : s[i + k - 1] = pat[k]

\* str.find(pat, from): the first index >= from where pat occurs, 0 if none
\* (Python's -1)
Find(s, pat, from) ==
    LET hits == {i \in from..Len(s) : OccursAt(s, pat, i)}
    IN  IF hits = {} THEN 0 ELSE SetMin(hits)

Digit(d) == <<"0", "1", "2", "3", "4", "5", "6", "7", "8", "9">>[d + 1]

\* str(n) of a non-negative int
RECURSIVE IntStr(_)
IntStr(n) == IF n < 10 THEN <<Digit(n)>> ELSE IntStr(n \div 10) \o <<Digit(n % 10)>>

(***************************************************************************)
(* The names the code looks up.                                            *)
(***************************************************************************)

\* business_model
K_business_model ==
    <<"b", "u", "s", "i", "n", "e", "s", "s", "_", "m", "o", "d", "e", "l">>

\* customer_type
K_customer_type ==
    <<"c", "u", "s", "t", "o", "m", "e", "r", "_", "t", "y", "p", "e">>

\* stage
K_stage ==
    <<"s", "t", "a", "g", "e">>

\* milestone
K_milestone ==
    <<"m", "i", "l", "e", "s", "t", "o", "n", "e">>

\* mentioned_competitors
K_mentioned_competitors ==
    <<"m", "e", "n", "t", "i", "o", "n", "e", "d", "_", "c", "o", "m", "p",
      "e", "t", "i", "t", "o", "r", "s">>

\* results
K_results ==
    <<"r", "e", "s", "u", "l", "t", "s">>

\* companies
K_companies ==
    <<"c", "o", "m", "p", "a", "n", "i", "e", "s">>

\* company
K_company ==
    <<"c", "o", "m", "p", "a", "n", "y">>

\* name
K_name ==
    <<"n", "a", "m", "e">>

\* json
S_json ==
    <<"j", "s", "o", "n">>

\* the fence of a code block: three backticks (the backtick character is
\* written "BACKTICK": a TLA+ string cannot hold it)
S_fence ==
    <<"BACKTICK", "BACKTICK", "BACKTICK">>

\* null
S_null ==
    <<"n", "u", "l", "l">>

\* true
S_true ==
    <<"t", "r", "u", "e">>

\* false
S_false ==
    <<"f", "a", "l", "s", "e">>

\* None
S_None ==
    <<"N", "o", "n", "e">>

\* True
S_True ==
    <<"T", "r", "u", "e">>

\* False
S_False ==
    <<"F", "a", "l", "s", "e">>

(***************************************************************************)
(* Python values as json.loads builds them: None, str, int, bool, list and *)
(* dict (a dict is the sequence of its <<key, value>> items in insertion   *)
(* order, keys distinct).                                                  *)
(***************************************************************************)
JNull == [t |-> "null"]

JStr(s) == [t |-> "str", chars |-> s]

JNum(n) == [t |-> "num", int |-> n]

JBool(b) == [t |-> "bool", bool |-> b]

JList(items) == [t |-> "list", items |-> items]

JDict(items) == [t |-> "dict", pairs |-> items]

\* bool(x)
Truthy(x) ==
    CASE x.t = "null" -> FALSE
      [] x.t = "str" -> x.chars # <<>>
      [] x.t = "num" -> x.int # 0
      [] x.t = "bool" -> x.bool
      [] x.t = "list" -> x.items # <<>>
      [] OTHER -> x.pairs # <<>>

\* str(x) of None, a str, a non-negative int or a bool
PyStr(x) ==
    CASE x.t = "str" -> x.chars
      [] x.t = "num" -> IntStr(x.int)
      [] x.t = "bool" -> IF x.bool THEN S_True ELSE S_False
      [] OTHER -> S_None

\* type(x).__name__
TypeName(x) ==
    CASE x.t = "null" -> <<"N", "o", "n", "e", "T", "y", "p", "e">>
      [] x.t = "str" -> <<"s", "t", "r">>
      [] x.t = "num" -> <<"i", "n", "t">>
      [] x.t = "bool" -> <<"b", "o", "o", "l">>
      [] x.t = "list" -> <<"l", "i", "s", "t">>
      [] OTHER -> <<"d", "i", "c", "t">>

\* dict.get(key): the value stored under key, None when there is none
DictGet(d, key) ==
    LET at == {i \in 1..Len(d.pairs) : d.pairs[i][1] = key}
    IN  IF at = {} THEN JNull ELSE d.pairs[SetMax(at)][2]

\* d[key] = value
DictPut(items, key, value) ==
    IF \E i \in 1..Len(items) : items[i][1] = key
    THEN [i \in 1..Len(items) |->
             IF items[i][1] = key THEN <<key, value>> ELSE items[i]]
    ELSE Append(items, <<key, value>>)

(***************************************************************************)
(* json.loads on a character sequence: objects, arrays, strings without    *)
(* escapes, unsigned integers, true, false, null.  A parse step returns    *)
(* [ok, val, next]: next is the index after the value.                     *)
(***************************************************************************)
Fail == [ok |-> FALSE]

Got(val, next) == [ok |-> TRUE, val |-> val, next |-> next]

CharAt(text, i) == IF i >= 1 /\ i <= Len(text) THEN text[i] ELSE "EOF"

Digits == {"0", "1", "2", "3", "4", "5", "6", "7", "8", "9"}

DigitVal(c) == CHOOSE d \in 0..9 : Digit(d) = c

\* the first index >= i that holds no JSON whitespace
SkipWs(text, i) ==
    LET stop == {j \in i..Len(text) : text[j] \notin Whitespace}
    IN  IF stop = {} THEN Len(text) + 1 ELSE SetMin(stop)

\* text[i] is the opening quote
ParseString(text, i) ==
    LET close == Find(text, <<"\"">>, i + 1)
    IN  IF close = 0 THEN Fail
        ELSE IF \E k \in (i + 1)..(close - 1) :
                    text[k] \in {"\n", "\t", "\r", "\\"} THEN Fail
        ELSE Got(SubSeq(text, i + 1, close - 1), close + 1)

RECURSIVE NumberFrom(_, _, _)
NumberFrom(text, i, acc) ==
    IF CharAt(text, i) \in Digits
    THEN NumberFrom(text, i + 1, 10 * acc + DigitVal(text[i]))
    ELSE Got(JNum(acc), i)

\* an unsigned integer: 0, or a digit 1-9 followed by digits
ParseNumber(text, i) ==
    IF text[i] = "0" THEN Got(JNum(0), i + 1) ELSE NumberFrom(text, i, 0)

RECURSIVE ParseValue(_, _)
RECURSIVE ParseMembers(_, _, _)
RECURSIVE ParseElements(_, _, _)

\* i is at the next key of an object whose earlier items are acc
ParseMembers(text, i, acc) ==
    IF CharAt(text, i) # "\"" THEN Fail
    ELSE LET key == ParseString(text, i)
             colon == SkipWs(text, key.next)
             val == ParseValue(text, SkipWs(text, colon + 1))
             after == SkipWs(text, val.next)
             items == DictPut(acc, key.val, val.val)
         IN  IF ~key.ok THEN Fail
             ELSE IF CharAt(text, colon) # ":" THEN Fail
             ELSE IF ~val.ok THEN Fail
             ELSE IF CharAt(text, after) = "}" THEN Got(JDict(items), after + 1)
             ELSE IF CharAt(text, after) = ","
                  THEN ParseMembers(text, SkipWs(text, after + 1), items)
             ELSE Fail

\* i is at the next element of an array whose earlier elements are acc
ParseElements(text, i, acc) ==
    LET val == ParseValue(text, i)
        after == SkipWs(text, val.next)
    IN  IF ~val.ok THEN Fail
        ELSE IF CharAt(text, after) = "]"
             THEN Got(JList(Append(acc, val.val)), after + 1)
        ELSE IF CharAt(text, after) = ","
             THEN ParseElements(text, SkipWs(text, after + 1), Append(acc, val.val))
        ELSE Fail

ParseValue(text, i) ==
    LET c == CharAt(text, i)
    IN  CASE c = "{" ->
                LET j == SkipWs(text, i + 1)
                IN  IF CharAt(text, j) = "}" THEN Got(JDict(<<>>), j + 1)
                    ELSE ParseMembers(text, j, <<>>)
          [] c = "[" ->
                LET j == SkipWs(text, i + 1)
                IN  IF CharAt(text, j) = "]" THEN Got(JList(<<>>), j + 1)
                    ELSE ParseElements(text, j, <<>>)
          [] c = "\"" ->
                LET s == ParseString(text, i)
                IN  IF s.ok THEN Got(JStr(s.val), s.next) ELSE Fail
          [] c \in Digits -> ParseNumber(text, i)
          [] OccursAt(text, S_null, i) -> Got(JNull, i + Len(S_null))
          [] OccursAt(text, S_true, i) -> Got(JBool(TRUE), i + Len(S_true))
          [] OccursAt(text, S_false, i) -> Got(JBool(FALSE), i + Len(S_false))
          [] OTHER -> Fail

json_loads(text) ==
    LET v == ParseValue(text, SkipWs(text, 1))
    IN  IF v.ok /\ SkipWs(text, v.next) = Len(text) + 1
        THEN Ok(v.val)
        ELSE Raise("JSONDecodeError")

(***************************************************************************)
(* company.py: the profile parser                                          *)
(***************************************************************************)
ExcerptLen == 500

\* _ensure_competitors_list: a list of str
ensure_competitors_list(value) ==
    IF value.t = "null" THEN <<>>
    ELSE IF value.t = "list"
         THEN LET kept == SelectSeq(value.items, Truthy)
              IN  [i \in 1..Len(kept) |-> strip(PyStr(kept[i]))]
    ELSE <<strip(PyStr(value))>>

\* re.search(fence (?:json)?\s*([\s\S]*?)\s* fence, text): the leftmost opening
\* fence that a later fence closes, and the first fence that closes it.
\* [found, body]: body is group(1), whose own edge whitespace the caller
\* strips anyway.
CodeBlock(text) ==
    LET open == Find(text, S_fence, 1)
        inner == IF OccursAt(text, S_json, open + 3) THEN open + 3 + Len(S_json)
                 ELSE open + 3
        close == Find(text, S_fence, inner)
    IN  IF open = 0 \/ close = 0 THEN [found |-> FALSE]
        ELSE [found |-> TRUE, body |-> SubSeq(text, inner, close - 1)]

\* company.py 69-77.  The loop adds 1 to depth at each "{", subtracts 1 at
\* each "}", and stops at the first "}" that brings depth to 0: depth after
\* index i is the count of "{" less the count of "}" in start..i.
DepthAfter(text, start, i) ==
    Cardinality({k \in start..i : text[k] = "{"})
        - Cardinality({k \in start..i : text[k] = "}"})

\* the index at which the loop breaks, 0 when it runs to the end
MatchBrace(text, start) ==
    LET breaks == {i \in start..Len(text) :
                      text[i] = "}" /\ DepthAfter(text, start, i) = 0}
    IN  IF breaks = {} THEN 0 ELSE SetMin(breaks)

\* company.py 59-77: the text handed to json.loads
ExtractJsonText(response) ==
    LET text0 == strip(response)
        block == CodeBlock(text0)
        text1 == IF block.found THEN strip(block.body) ELSE text0
        start == Find(text1, <<"{">>, 1)
        end == IF start = 0 THEN 0 ELSE MatchBrace(text1, start)
    IN  IF start # 0 /\ end # 0 THEN SubSeq(text1, start, end) ELSE text1

\* the f-string messages of the two ValueErrors: the template and the values
\* interpolated into it
ParseErrorMessage(response) ==
    [template |-> "Failed to parse MiniMax response as JSON: {e}. Raw response: {response[:500]}",
     fields |-> <<Take(response, ExcerptLen)>>]

NotObjectMessage(data) ==
    [template |-> "MiniMax response was not a JSON object: {type(data).__name__}",
     fields |-> <<TypeName(data)>>]

\* company.py 91-100
NormalizeProfile(data) ==
    [business_model |-> DictGet(data, K_business_model),
     customer_type |-> DictGet(data, K_customer_type),
     stage |-> DictGet(data, K_stage),
     milestone |-> DictGet(data, K_milestone),
     mentioned_competitors |->
         ensure_competitors_list(DictGet(data, K_mentioned_competitors))]

parse_profile_json(response) ==
    LET data == json_loads(ExtractJsonText(response))
    IN  IF data.kind # "ok"
        THEN [kind |-> "ValueError", msg |-> ParseErrorMessage(response)]
        ELSE IF data.value.t # "dict"
        THEN [kind |-> "ValueError", msg |-> NotObjectMessage(data.value)]
        ELSE Ok(NormalizeProfile(data.value))

(***************************************************************************)
(* minimax_helper.py: chat_completion.  w is the environment: which        *)
(* credentials are set and what the endpoint answers.  The result is the   *)
(* outcome with the external effects issued, in order.                     *)
(***************************************************************************)
GetApiKey == "getenv MINIMAX_API_KEY"

GetGroupId == "getenv MINIMAX_GROUP_ID"

PostChat == "POST chatcompletion_v2"

GetRegistry == "GET companies/search"

chat_completion(w) ==
    IF ~w.api_key
    THEN [ret |-> Raise("ValueError"), effects |-> <<GetApiKey>>]
    ELSE IF ~w.group_id
    THEN [ret |-> Raise("ValueError"), effects |-> <<GetApiKey, GetGroupId>>]
    ELSE LET issued == <<GetApiKey, GetGroupId, PostChat>>
             out == CASE w.llm.kind \in {"timeout", "http_error"} ->
                            Raise("RuntimeError")
                      [] w.llm.kind = "not_json" -> Raise("JSONDecodeError")
                      [] w.llm.kind = "no_content_field" -> Raise("RuntimeError")
                      [] w.llm.content.t = "null" -> Raise("RuntimeError")
                      [] w.llm.content.t = "str" -> Ok(strip(w.llm.content.chars))
                      [] OTHER -> Raise("AttributeError")
         IN  [ret |-> out, effects |-> issued]

(***************************************************************************)
(* company.py: extract_company_profile                                     *)
(***************************************************************************)
EmptyProfile ==
    [business_model |-> JNull,
     customer_type |-> JNull,
     stage |-> JNull,
     milestone |-> JNull,
     mentioned_competitors |-> <<>>]

extract_company_profile_no_short_circuit(startup_description, w) ==
    LET call == chat_completion(w)
    IN  IF call.ret.kind # "ok" THEN call
        ELSE [ret |-> parse_profile_json(call.ret.value),
              effects |-> call.effects]

extract_company_profile(startup_description, w) ==
    IF startup_description = <<>> \/ strip(startup_description) = <<>>
    THEN [ret |-> Ok(EmptyProfile), effects |-> <<>>]
    ELSE LET call == chat_completion(w)
         IN  IF call.ret.kind # "ok" THEN call
             ELSE [ret |-> parse_profile_json(call.ret.value),
                   effects |-> call.effects]

(***************************************************************************)
(* company.py: find_competitors                                            *)
(***************************************************************************)
MaxNames == 10

\* iter(x) of the for loop: the items, TypeError for a value that is not
\* iterable
Iterate(x) ==
    CASE x.t = "list" -> Ok(x.items)
      [] x.t = "dict" -> Ok([i \in 1..Len(x.pairs) |-> JStr(x.pairs[i][1])])
      [] x.t = "str" -> Ok([i \in 1..Len(x.chars) |-> JStr(<<x.chars[i]>>)])
      [] OTHER -> Raise("TypeError")

\* x.get(key): AttributeError unless x is a dict
GetAttr(x, key) ==
    IF x.t = "dict" THEN Ok(DictGet(x, key)) ELSE Raise("AttributeError")

Accepts_not_none(name) == name.t # "null"

\* company.py 150-152: whether the name is accepted
Accepts(name) == name.t # "null" /\ strip(PyStr(name)) # <<>>

\* company.py 146-154: the loop from item i on, names collected so far
RECURSIVE CollectNames(_, _, _)
CollectNames(companies, i, names) ==
    IF i > Len(companies) THEN names
    ELSE LET item == companies[i]
             company == IF item.t = "dict" THEN DictGet(item, K_company) ELSE JNull
         IN  IF company.t # "dict" THEN CollectNames(companies, i + 1, names)
             ELSE LET name == DictGet(company, K_name)
                      names2 == IF Accepts(name)
                                THEN Append(names, strip(PyStr(name)))
                                ELSE names
                  IN  IF Len(names2) >= MaxNames THEN names2
                      ELSE CollectNames(companies, i + 1, names2)

\* company.py 141-156, on the parsed body
NamesOf(data) ==
    LET results == GetAttr(data, K_results)
        holder == IF Truthy(results.value) THEN results.value ELSE JDict(<<>>)
        found == GetAttr(holder, K_companies)
        companies == IF Truthy(found.value) THEN found.value ELSE JList(<<>>)
        items == Iterate(companies)
    IN  IF results.kind # "ok" THEN results
        ELSE IF found.kind # "ok" THEN found
        ELSE IF items.kind # "ok" THEN items
        ELSE Ok(Take(CollectNames(items.value, 1, <<>>), MaxNames))

\* raise_for_status(): HTTPError for a 4xx or 5xx status
RaisesForStatus(status) == status >= 400 /\ status < 600

find_competitors(business_model, keywords, w) ==
    IF keywords = <<>> \/ strip(keywords) = <<>>
    THEN [ret |-> Ok(<<>>), effects |-> <<>>]
    ELSE LET r == w.registry
             out == IF r.kind \in {"timeout", "connection_error"} THEN Ok(<<>>)
                    ELSE IF RaisesForStatus(r.status) THEN Ok(<<>>)
                    ELSE IF ~r.json THEN Ok(<<>>)
                    ELSE NamesOf(r.data)
         IN  [ret |-> out, effects |-> <<GetRegistry>>]

(***************************************************************************)
(* The inputs the executions are run on.                                   *)
(***************************************************************************)

\* Acme
S_Acme ==
    <<"A", "c", "m", "e">>

\* Globex
S_Globex ==
    <<"G", "l", "o", "b", "e", "x">>

\*  Globex\n
S_GlobexPadded ==
    <<" ", "G", "l", "o", "b", "e", "x", "\n">>

\*  
S_Blank ==
    <<" ">>

\*   
D_Spaces ==
    <<" ", " ">>

\* \n\t 
D_Newlines ==
    <<"\n", "\t", " ">>

\* SaaS for vets
D_Text ==
    <<"S", "a", "a", "S", " ", "f", "o", "r", " ", "v", "e", "t", "s">>

\*  B2B marketplace\n
D_Padded ==
    <<" ", "B", "2", "B", " ", "m", "a", "r", "k", "e", "t", "p", "l", "a",
      "c", "e", "\n">>

\* Here you go:\n
P_Lead ==
    <<"H", "e", "r", "e", " ", "y", "o", "u", " ", "g", "o", ":", "\n">>

\*   \n
P_Space ==
    <<" ", " ", "\n">>

\* \nHope this helps.
P_Trail ==
    <<"\n", "H", "o", "p", "e", " ", "t", "h", "i", "s", " ", "h", "e",
      "l", "p", "s", ".">>

\* {}
B_Empty ==
    <<"{", "}">>

\* {"business_model": "SaaS", "customer_type": "B2B", "stage": "seed", "milestone": "launch", "mentioned_competitors": ["Acme", "Globex"]}
B_Full ==
    <<"{", "\"", "b", "u", "s", "i", "n", "e", "s", "s", "_", "m", "o",
      "d", "e", "l", "\"", ":", " ", "\"", "S", "a", "a", "S", "\"", ",",
      " ", "\"", "c", "u", "s", "t", "o", "m", "e", "r", "_", "t", "y",
      "p", "e", "\"", ":", " ", "\"", "B", "2", "B", "\"", ",", " ", "\"",
      "s", "t", "a", "g", "e", "\"", ":", " ", "\"", "s", "e", "e", "d",
      "\"", ",", " ", "\"", "m", "i", "l", "e", "s", "t", "o", "n", "e",
      "\"", ":", " ", "\"", "l", "a", "u", "n", "c", "h", "\"", ",", " ",
      "\"", "m", "e", "n", "t", "i", "o", "n", "e", "d", "_", "c", "o",
      "m", "p", "e", "t", "i", "t", "o", "r", "s", "\"", ":", " ", "[",
      "\"", "A", "c", "m", "e", "\"", ",", " ", "\"", "G", "l", "o", "b",
      "e", "x", "\"", "]", "}">>

\* {"stage": "seed"}
B_Stage ==
    <<"{", "\"", "s", "t", "a", "g", "e", "\"", ":", " ", "\"", "s", "e",
      "e", "d", "\"", "}">>

\* {"milestone": "reach } users"}
B_CloseInString ==
    <<"{", "\"", "m", "i", "l", "e", "s", "t", "o", "n", "e", "\"", ":",
      " ", "\"", "r", "e", "a", "c", "h", " ", "}", " ", "u", "s", "e",
      "r", "s", "\"", "}">>

\* {"milestone": "use {x"}
B_OpenInString ==
    <<"{", "\"", "m", "i", "l", "e", "s", "t", "o", "n", "e", "\"", ":",
      " ", "\"", "u", "s", "e", " ", "{", "x", "\"", "}">>

\* {"stage": "{}"}
B_PairInString ==
    <<"{", "\"", "s", "t", "a", "g", "e", "\"", ":", " ", "\"", "{", "}",
      "\"", "}">>

\* {"milestone": {"a": 1}, "mentioned_competitors": "Acme"}
B_Nested ==
    <<"{", "\"", "m", "i", "l", "e", "s", "t", "o", "n", "e", "\"", ":",
      " ", "{", "\"", "a", "\"", ":", " ", "1", "}", ",", " ", "\"", "m",
      "e", "n", "t", "i", "o", "n", "e", "d", "_", "c", "o", "m", "p", "e",
      "t", "i", "t", "o", "r", "s", "\"", ":", " ", "\"", "A", "c", "m",
      "e", "\"", "}">>

\* {"mentioned_competitors": ["Acme", "", " ", null, 0]}
B_Mixed ==
    <<"{", "\"", "m", "e", "n", "t", "i", "o", "n", "e", "d", "_", "c",
      "o", "m", "p", "e", "t", "i", "t", "o", "r", "s", "\"", ":", " ",
      "[", "\"", "A", "c", "m", "e", "\"", ",", " ", "\"", "\"", ",", " ",
      "\"", " ", "\"", ",", " ", "n", "u", "l", "l", ",", " ", "0", "]", "}">>

\* {"extra": 1, "stage": null, "customer_type": true}
B_Extra ==
    <<"{", "\"", "e", "x", "t", "r", "a", "\"", ":", " ", "1", ",", " ",
      "\"", "s", "t", "a", "g", "e", "\"", ":", " ", "n", "u", "l", "l",
      ",", " ", "\"", "c", "u", "s", "t", "o", "m", "e", "r", "_", "t",
      "y", "p", "e", "\"", ":", " ", "t", "r", "u", "e", "}">>

\* {\n  "business_model": "fintech",\n  "stage": "pre-seed"\n}
B_Multiline ==
    <<"{", "\n", " ", " ", "\"", "b", "u", "s", "i", "n", "e", "s", "s",
      "_", "m", "o", "d", "e", "l", "\"", ":", " ", "\"", "f", "i", "n",
      "t", "e", "c", "h", "\"", ",", "\n", " ", " ", "\"", "s", "t", "a",
      "g", "e", "\"", ":", " ", "\"", "p", "r", "e", "-", "s", "e", "e",
      "d", "\"", "\n", "}">>

\* ["Acme"]
N_List ==
    <<"[", "\"", "A", "c", "m", "e", "\"", "]">>

\* [{"stage": "seed"}]
N_ListOfObject ==
    <<"[", "{", "\"", "s", "t", "a", "g", "e", "\"", ":", " ", "\"", "s",
      "e", "e", "d", "\"", "}", "]">>

\* "seed"
N_String ==
    <<"\"", "s", "e", "e", "d", "\"">>

\* 42
N_Number ==
    <<"4", "2">>

\* null
N_Null ==
    <<"n", "u", "l", "l">>

\* true
N_True ==
    <<"t", "r", "u", "e">>

\* {"stage": }
N_MissingValue ==
    <<"{", "\"", "s", "t", "a", "g", "e", "\"", ":", " ", "}">>

\* I cannot answer that.
N_Prose ==
    <<"I", " ", "c", "a", "n", "n", "o", "t", " ", "a", "n", "s", "w", "e",
      "r", " ", "t", "h", "a", "t", ".">>

\* {"stage": "seed"
N_Unclosed ==
    <<"{", "\"", "s", "t", "a", "g", "e", "\"", ":", " ", "\"", "s", "e",
      "e", "d", "\"">>

\* {"stage": "seed",}
N_TrailingComma ==
    <<"{", "\"", "s", "t", "a", "g", "e", "\"", ":", " ", "\"", "s", "e",
      "e", "d", "\"", ",", "}">>

\* 
N_Nothing ==
    <<>>

ObjectBodies ==
    {B_Empty,
     B_Full,
     B_Stage,
     B_CloseInString,
     B_OpenInString,
     B_PairInString,
     B_Nested,
     B_Mixed,
     B_Extra,
     B_Multiline}

OtherBodies ==
    {N_List,
     N_ListOfObject,
     N_String,
     N_Number,
     N_Null,
     N_True,
     N_MissingValue,
     N_Prose,
     N_Unclosed,
     N_TrailingComma,
     N_Nothing}

\* the response the language model sends: prose, an optional fenced block
\* around the body, prose
Padding == [i \in 1..PadLen |-> "x"] \o <<" ">>

Prefixes == {<<>>, P_Lead, P_Space, Padding}

Suffixes == {<<>>, P_Trail}

Fences == {"none", "plain", "json"}

Compose(prefix, fence, body, suffix) ==
    LET open == CASE fence = "plain" -> S_fence \o <<"\n">>
                  [] fence = "json" -> S_fence \o S_json \o <<"\n">>
                  [] OTHER -> <<>>
        close == IF fence = "none" THEN <<>> ELSE <<"\n">> \o S_fence
    IN  prefix \o open \o body \o close \o suffix

ResponseParts ==
    [prefix : Prefixes, fence : Fences,
     body : ObjectBodies \cup OtherBodies, suffix : Suffixes]

ResponseOf(parts) == Compose(parts.prefix, parts.fence, parts.body, parts.suffix)

\* amounts of money
Amounts == (-1)..MaxAmount

Money ==
    {Rat(n, d) : n \in (-2)..(MaxAmount + 2), d \in 1..3}
        \cup {FromInt(1000), FromInt(1200), FromInt(10000)}

Percents == {FromInt(-5), Zero, FromInt(20), FromInt(50), Rat(25, 2)}

\* the frame of the given cells (one [expenses, cash_balance] per row, in
\* file order), months ascending or descending, cut down to cols
Frame(cells, order, cols) ==
    [columns |-> cols,
     rows |-> [i \in 1..Len(cells) |->
                  LET row == [month |-> IF order = "asc" THEN i
                                        ELSE Len(cells) + 1 - i,
                              expenses |-> cells[i].expenses,
                              cash_balance |-> cells[i].cash_balance,
                              notes |-> 0]
                  IN  [c \in cols |-> row[c]]]]

Cell == [expenses : Amounts, cash_balance : Amounts]

CellSeqs(n) == UNION {[1..k -> Cell] : k \in 0..n}

ExampleCells ==
    {<<[expenses |-> 1000, cash_balance |-> 12000],
       [expenses |-> 1000, cash_balance |-> 11000],
       [expenses |-> 1000, cash_balance |-> 10000]>>,
     <<[expenses |-> 1000, cash_balance |-> 9000],
       [expenses |-> 2000, cash_balance |-> 7000],
       [expenses |-> 3000, cash_balance |-> 4000]>>}

Frames ==
    {Frame(cells, order, Required) :
        cells \in CellSeqs(MaxRows) \cup ExampleCells, order \in {"asc", "desc"}}
    \cup
    {Frame(cells, "asc", cols) :
        cells \in CellSeqs(1), cols \in SUBSET (Required \cup {"notes"})}

Files ==
    {[kind |-> "missing"], [kind |-> "zero_bytes"], [kind |-> "unreadable"]}
        \cup {[kind |-> "table", df |-> df] : df \in Frames}

\* values the model may return under mentioned_competitors
Items ==
    {JNull, JStr(<<>>), JStr(S_Blank), JStr(S_Acme), JStr(S_GlobexPadded),
     JNum(0), JNum(7), JBool(FALSE)}

ItemLists(n) == UNION {[1..k -> Items] : k \in 0..n}

CompetitorValues == Items \cup {JList(l) : l \in ItemLists(MaxItems)}

Descriptions == {<<>>, D_Spaces, D_Newlines, D_Text, D_Padded}

LlmReplies ==
    {[kind |-> "timeout"], [kind |-> "http_error"], [kind |-> "not_json"],
     [kind |-> "no_content_field"],
     [kind |-> "content", content |-> JNull],
     [kind |-> "content", content |-> JNum(1)]}
    \cup {[kind |-> "content", content |-> JStr(ResponseOf(p))] :
             p \in {q \in ResponseParts : q.prefix # Padding}}

Worlds == [api_key : BOOLEAN, group_id : BOOLEAN, llm : LlmReplies]

\* the registry's entries
Entry(name) == JDict(<<<<K_company, JDict(<<<<K_name, name>>>>)>>>>)

Numbered(i) == JStr(<<"N">> \o IntStr(i))

Entries ==
    {Entry(JStr(S_Acme)), Entry(JStr(S_GlobexPadded)), Entry(JStr(<<>>)),
     Entry(JStr(S_Blank)), Entry(JNull), Entry(JNum(7)),
     JNum(1), JDict(<<>>), JDict(<<<<K_company, JNull>>>>),
     JDict(<<<<K_company, JStr(S_Acme)>>>>)}

LongLists ==
    UNION {{[i \in 1..n |-> Entry(Numbered(i))],
            [i \in 1..n |-> Entry(JStr(S_Acme))],
            [i \in 1..n |-> IF i % 6 = 3 THEN Entry(JStr(S_Blank))
                            ELSE Entry(Numbered(i))]} : n \in 0..MaxCompanies}

CompanyLists == UNION {[1..k -> Entries] : k \in 0..MaxEntries} \cup LongLists

Listing(companies) ==
    JDict(<<<<K_results, JDict(<<<<K_companies, companies>>>>)>>>>)

OddBodies ==
    {JList(<<>>), JNull, JStr(S_Acme), JNum(1), JDict(<<>>),
     JDict(<<<<K_results, JNull>>>>),
     JDict(<<<<K_results, JList(<<>>)>>>>),
     JDict(<<<<K_results, JList(<<JNum(1)>>)>>>>),
     JDict(<<<<K_results, JStr(S_Acme)>>>>),
     JDict(<<<<K_results, JDict(<<>>)>>>>),
     Listing(JNull), Listing(JNum(5)), Listing(JStr(S_Acme)),
     Listing(JDict(<<<<K_name, JStr(S_Acme)>>>>))}

RegistryBodies == OddBodies \cup {Listing(JList(l)) : l \in CompanyLists}

RegistryReplies ==
    {[kind |-> "timeout"], [kind |-> "connection_error"]}
    \cup {[kind |-> "response", status |-> s, json |-> FALSE] :
             s \in {200, 404, 500}}
    \cup {[kind |-> "response", status |-> s, json |-> TRUE, data |-> d] :
             s \in {404, 500}, d \in OddBodies}
    \cup {[kind |-> "response", status |-> 200, json |-> TRUE, data |-> d] :
             d \in RegistryBodies}

Keywords == {<<>>, D_Spaces, S_Acme, D_Padded}

(***************************************************************************)
(* The state of the pipeline before anything ran.                          *)
(***************************************************************************)
None == JNull

\* diligence_memo.md does not exist
NoFile == [t |-> "absent"]

\* main.py 57-59 and 81 (app.py: the locals of run_pipeline, still unset)
NoLocals ==
    [startup_description |-> None,
     company_profile |-> None,
     competitors |-> <<>>,
     benchmark_data |-> None,
     financial_metrics |-> None,
     memo_text |-> None]

\* app.py 38-45
InitialSessionState ==
    [company_profile |-> None,
     financial_metrics |-> None,
     memo_text |-> None,
     competitors |-> <<>>]

(***************************************************************************)
(* The executions: one operation is called on one input and runs to its    *)
(* outcome.                                                                *)
(***************************************************************************)
Start(o, a) ==
    /\ pc = "call"
    /\ op = o
    /\ arg = a
    /\ world = Quiet
    /\ effects = <<>>
    /\ ret = Pending
    /\ locals = NoLocals
    /\ memo_file = NoFile
    /\ session_state = InitialSessionState

Init ==
    \/ \E df \in Frames : Start("calculate_burn", [df |-> df])
    \/ \E c \in Money, b \in Money :
          Start("calculate_runway", [cash_balance |-> c, monthly_burn |-> b])
    \/ \E b \in Money, p \in Percents :
          Start("simulate_downside", [monthly_burn |-> b, increase_percent |-> p])
    \/ \E b \in Money : Start("simulate_downside", [monthly_burn |-> b])
    \/ \E f \in Files : Start("analyze_financials", [file |-> f])
    \/ \E v \in CompetitorValues : Start("ensure_competitors_list", [value |-> v])
    \/ \E p \in ResponseParts :
          Start("parse_profile_json", [parts |-> p, response |-> ResponseOf(p)])
    \/ \E d \in Descriptions :
          Start("extract_company_profile", [startup_description |-> d])
    \/ \E k \in Keywords :
          Start("find_competitors", [business_model |-> k, keywords |-> k])

Returns(result) ==
    /\ pc' = "done"
    /\ ret' = result
    /\ UNCHANGED <<op, arg, world, effects, locals, memo_file, session_state>>

\* the execution asked the environment w and ended as run
Finishes(w, run) ==
    /\ pc' = "done"
    /\ world' = w
    /\ ret' = run.ret
    /\ effects' = run.effects
    /\ UNCHANGED <<op, arg, locals, memo_file, session_state>>

CalculateBurn ==
    /\ pc = "call" /\ op = "calculate_burn"
    /\ Returns(calculate_burn(arg.df))

CalculateRunway ==
    /\ pc = "call" /\ op = "calculate_runway"
    /\ Returns(calculate_runway(arg.cash_balance, arg.monthly_burn))

SimulateDownside ==
    /\ pc = "call" /\ op = "simulate_downside"
    /\ Returns(simulate_downside(arg.monthly_burn,
                                 IF "increase_percent" \in DOMAIN arg
                                 THEN arg.increase_percent
                                 ELSE FromInt(DefaultIncreasePercent)))

AnalyzeFinancials ==
    /\ pc = "call" /\ op = "analyze_financials"
    /\ Returns(analyze_financials(arg.file))

EnsureCompetitorsList ==
    /\ pc = "call" /\ op = "ensure_competitors_list"
    /\ Returns(Ok(ensure_competitors_list(arg.value)))

ParseProfileJson ==
    /\ pc = "call" /\ op = "parse_profile_json"
    /\ Returns(parse_profile_json(arg.response))

ExtractCompanyProfile ==
    /\ pc = "call" /\ op = "extract_company_profile"
    /\ \E w \in Worlds :
          Finishes(w, extract_company_profile(arg.startup_description, w))

FindCompetitors ==
    /\ pc = "call" /\ op = "find_competitors"
    /\ \E r \in RegistryReplies :
          Finishes([registry |-> r],
                   find_competitors(arg.business_model, arg.keywords,
                                    [registry |-> r]))

Next ==
    \/ CalculateBurn
    \/ CalculateRunway
    \/ SimulateDownside
    \/ AnalyzeFinancials
    \/ EnsureCompetitorsList
    \/ ParseProfileJson
    \/ ExtractCompanyProfile
    \/ FindCompetitors

Spec == Init /\ [][Next]_vars

(***************************************************************************)
(* memo.py                                                                 *)
(***************************************************************************)
WriteMemo == "write diligence_memo.md"

\* _format_user_prompt: the three dicts are read with .get and .items()
format_user_prompt(company_profile, financial_metrics, benchmark_data) ==
    IF benchmark_data.t = "dict"
    THEN Ok([company_profile |-> company_profile,
             financial_metrics |-> financial_metrics,
             benchmark_data |-> benchmark_data])
    ELSE Raise("AttributeError")

call_minimax(w) == chat_completion(w)

\* the file is opened for writing before the model is asked
generate_memo_opens_first(company_profile, financial_metrics, benchmark_data, w, file) ==
    LET prompt == format_user_prompt(company_profile, financial_metrics,
                                     benchmark_data)
        call == call_minimax(w)
    IN  IF prompt.kind # "ok"
        THEN [ret |-> prompt, effects |-> <<>>, file |-> file]
        ELSE IF call.ret.kind # "ok"
        THEN [ret |-> call.ret, effects |-> <<WriteMemo>> \o call.effects,
              file |-> JStr(<<>>)]
        ELSE [ret |-> call.ret, effects |-> <<WriteMemo>> \o call.effects,
              file |-> JStr(call.ret.value)]

\* generate_memo on the memo file as it is; file is the memo file afterwards
generate_memo(company_profile, financial_metrics, benchmark_data, w, file) ==
    LET prompt == format_user_prompt(company_profile, financial_metrics,
                                     benchmark_data)
        call == call_minimax(w)
    IN  IF prompt.kind # "ok"
        THEN [ret |-> prompt, effects |-> <<>>, file |-> file]
        ELSE IF call.ret.kind # "ok"
        THEN [ret |-> call.ret, effects |-> call.effects, file |-> file]
        ELSE [ret |-> call.ret, effects |-> call.effects \o <<WriteMemo>>,
              file |-> JStr(call.ret.value)]

(***************************************************************************)
(* main.py                                                                 *)
(***************************************************************************)
ReadBenchmarks == "read benchmarks.json"

\* load_startup_description: a first line typed at the prompt (followed by
\* an empty line), or the path of a file that is read
load_startup_description(stdin) ==
    CASE stdin.kind = "interrupt" -> Raise("KeyboardInterrupt")
      [] stdin.kind = "eof" -> Raise("EOFError")
      [] stdin.kind = "typed" ->
             IF strip(stdin.text) = <<>> THEN Raise("ValueError")
             ELSE Ok(strip(stdin.text))
      [] OTHER -> Ok(strip(stdin.text))

load_benchmarks(file) ==
    CASE file.kind = "absent" ->
             [ret |-> Raise("FileNotFoundError"), effects |-> <<>>]
      [] file.kind = "not_json" ->
             [ret |-> Raise("JSONDecodeError"), effects |-> <<ReadBenchmarks>>]
      [] OTHER -> [ret |-> Ok(file.data), effects |-> <<ReadBenchmarks>>]

\* len(benchmark_data) is defined
Sized(value) == value.t \in {"dict", "list", "str"}

\* the exception classes an exception of class e is an instance of
Bases(e) ==
    CASE e = "JSONDecodeError" -> {"JSONDecodeError", "ValueError", "Exception"}
      [] e = "KeyboardInterrupt" -> {"KeyboardInterrupt"}
      [] OTHER -> {e, "Exception"}

Exit(status, label, e) ==
    [kind |-> "exit", status |-> status, label |-> label, error |-> e]

\* the except clauses with a status of their own each
MainHandler_status_per_class(e) ==
    CASE "FileNotFoundError" \in Bases(e) -> Exit(2, "Error (missing file)", e)
      [] "ValueError" \in Bases(e) -> Exit(1, "Error (invalid input)", e)
      [] "RuntimeError" \in Bases(e) -> Exit(3, "Error (API or runtime)", e)
      [] "KeyboardInterrupt" \in Bases(e) -> Exit(130, "Cancelled by user.", e)
      [] OTHER -> Exit(1, "Unexpected error", e)

\* main.py 133-147: the except clauses, in order
MainHandler(e) ==
    CASE "FileNotFoundError" \in Bases(e) -> Exit(1, "Error (missing file)", e)
      [] "ValueError" \in Bases(e) -> Exit(1, "Error (invalid input)", e)
      [] "RuntimeError" \in Bases(e) -> Exit(1, "Error (API or runtime)", e)
      [] "KeyboardInterrupt" \in Bases(e) -> Exit(130, "Cancelled by user.", e)
      [] OTHER -> Exit(1, "Unexpected error", e)

\* main returned: the process ends with status 0
MainSuccess == Exit(0, "Success!", "none")

(***************************************************************************)
(* The inputs of the pipeline runs.                                        *)
(***************************************************************************)

\*  # Memo A\n
M_A ==
    <<" ", "#", " ", "M", "e", "m", "o", " ", "A", "\n">>

\* # Memo B
M_B ==
    <<"#", " ", "M", "e", "m", "o", " ", "B">>

Credentials ==
    {[api_key |-> TRUE, group_id |-> TRUE],
     [api_key |-> FALSE, group_id |-> TRUE],
     [api_key |-> TRUE, group_id |-> FALSE]}

ConsoleInputs ==
    {[kind |-> "typed", text |-> <<>>], [kind |-> "typed", text |-> D_Text],
     [kind |-> "path", text |-> D_Newlines], [kind |-> "path", text |-> D_Padded],
     [kind |-> "eof"], [kind |-> "interrupt"]}

ProfileReplies ==
    {[kind |-> "timeout"], [kind |-> "not_json"],
     [kind |-> "content", content |-> JNull],
     [kind |-> "content", content |-> JStr(Compose(P_Lead, "json", B_Full, <<>>))],
     [kind |-> "content", content |-> JStr(B_Stage)],
     [kind |-> "content", content |-> JStr(B_CloseInString)],
     [kind |-> "content", content |-> JStr(N_Prose)]}

PipelineRegistryReplies ==
    {[kind |-> "timeout"],
     [kind |-> "response", status |-> 500, json |-> FALSE],
     [kind |-> "response", status |-> 200, json |-> TRUE, data |-> JNull],
     [kind |-> "response", status |-> 200, json |-> TRUE,
      data |-> Listing(JList(<<Entry(JStr(S_Acme)), Entry(JStr(S_GlobexPadded))>>))]}

BenchmarkFiles ==
    {[kind |-> "absent"], [kind |-> "not_json"],
     [kind |-> "json", data |-> JDict(<<>>)],
     [kind |-> "json", data |-> JList(<<>>)],
     [kind |-> "json", data |-> JNum(1)]}

PipelineFrames ==
    {Frame(cells, "asc", Required) : cells \in ExampleCells}
    \cup {Frame(<<>>, "asc", Required),
          Frame(<<[expenses |-> 1, cash_balance |-> 1]>>, "asc",
                {"month", "expenses"}),
          Frame(<<[expenses |-> -1, cash_balance |-> 1]>>, "asc", Required)}

UploadedFiles ==
    {[kind |-> "zero_bytes"]} \cup {[kind |-> "table", df |-> df] : df \in PipelineFrames}

CsvFiles == {[kind |-> "missing"]} \cup UploadedFiles

MemoReplies ==
    {[kind |-> "timeout"], [kind |-> "http_error"],
     [kind |-> "content", content |-> JNull],
     [kind |-> "content", content |-> JStr(<<>>)],
     [kind |-> "content", content |-> JStr(M_A)],
     [kind |-> "content", content |-> JStr(M_B)]}

(***************************************************************************)
(* The pipeline runs.  A run of the console flow (op = "main") or of the   *)
(* form-based flow (op = "run_pipeline") goes through its stages one at a  *)
(* time; pc is the stage it is about to enter.  When a run has ended the   *)
(* operator may start the next one: the memo file and the session state    *)
(* stay as the runs so far left them.  world.before holds the memo file    *)
(* and the session state as they were when the run started, and the exit   *)
(* of the previous console run.                                            *)
(***************************************************************************)
FreshWorld(previous) ==
    [before |-> [memo_file |-> memo_file,
                 session_state |-> session_state,
                 exit |-> previous],
     profile_llm |-> Quiet,
     registry |-> Quiet,
     benchmarks |-> Quiet,
     csv |-> Quiet,
     memo_llm |-> Quiet]

\* the effects of one stage, marked with the stage
Staged(stage, stage_effects) ==
    [i \in 1..Len(stage_effects) |-> <<stage, stage_effects[i]>>]

\* the answer, when the stage asked for it
Asked(run, effect, answer) ==
    IF \E i \in 1..Len(run.effects) : run.effects[i] = effect
    THEN answer ELSE Quiet

Advance(next, set) ==
    /\ pc' = next
    /\ locals' = set
    /\ ret' = ret

Ends(outcome) ==
    /\ pc' = "done"
    /\ locals' = locals
    /\ ret' = outcome

EnvOf(reply) ==
    [api_key |-> arg.api_key, group_id |-> arg.group_id, llm |-> reply]

\* main.py 82-83, app.py 58-59
HasBusinessModel(company_profile) ==
    /\ Truthy(company_profile.business_model)
    /\ strip(PyStr(company_profile.business_model)) # <<>>

\* main.py 81-88, app.py 58-65: the lookup, made only for a business model
LookUp(company_profile, reply) ==
    IF HasBusinessModel(company_profile)
    THEN find_competitors(company_profile.business_model,
                          strip(PyStr(company_profile.business_model)),
                          [registry |-> reply])
    ELSE [ret |-> Ok(<<>>), effects |-> <<>>]

PipelineInit ==
    /\ pc = "start"
    /\ \/ /\ op = "main"
          /\ \E i \in ConsoleInputs, c \in Credentials :
                arg = [stdin |-> i, api_key |-> c.api_key, group_id |-> c.group_id]
       \/ /\ op = "run_pipeline"
          /\ \E d \in {<<>>, D_Spaces, D_Text, D_Padded},
                f \in {None} \cup UploadedFiles, c \in Credentials :
                arg = [startup_description |-> d, csv_file |-> f,
                       api_key |-> c.api_key, group_id |-> c.group_id]
    /\ effects = <<>>
    /\ ret = Pending
    /\ locals = NoLocals
    /\ memo_file = NoFile
    /\ session_state = InitialSessionState
    /\ world = [before |-> [memo_file |-> NoFile,
                            session_state |-> InitialSessionState,
                            exit |-> Pending],
                profile_llm |-> Quiet, registry |-> Quiet,
                benchmarks |-> Quiet, csv |-> Quiet, memo_llm |-> Quiet]

\* main.py 62-65
MainLoadDescription ==
    /\ op = "main" /\ pc = "start"
    /\ \E read \in {load_startup_description(arg.stdin)} :
           IF read.kind = "ok"
           THEN Advance("profile",
                        [locals EXCEPT !.startup_description = JStr(read.value)])
           ELSE Ends(MainHandler(read.kind))
    /\ UNCHANGED <<op, arg, world, effects, memo_file, session_state>>

\* main.py 67-77
MainExtractProfile ==
    /\ op = "main" /\ pc = "profile"
    /\ \E reply \in ProfileReplies :
          \E run \in {extract_company_profile(locals.startup_description.chars,
                                              EnvOf(reply))} :
              /\ effects' = effects \o Staged("profile", run.effects)
              /\ world' = [world EXCEPT
                              !.profile_llm = Asked(run, PostChat, reply)]
              /\ IF run.ret.kind = "ok"
                 THEN Advance("competitors",
                              [locals EXCEPT !.company_profile = run.ret.value])
                 ELSE Ends(MainHandler(run.ret.kind))
    /\ UNCHANGED <<op, arg, memo_file, session_state>>

\* main.py 79-90
MainFindCompetitors ==
    /\ op = "main" /\ pc = "competitors"
    /\ \E reply \in PipelineRegistryReplies :
          \E run \in {LookUp(locals.company_profile, reply)} :
              /\ effects' = effects \o Staged("competitors", run.effects)
              /\ world' = [world EXCEPT
                              !.registry = Asked(run, GetRegistry, reply)]
              /\ IF run.ret.kind = "ok"
                 THEN Advance("benchmarks",
                              [locals EXCEPT !.competitors = run.ret.value])
                 ELSE Ends(MainHandler(run.ret.kind))
    /\ UNCHANGED <<op, arg, memo_file, session_state>>

\* main.py 92-95
MainLoadBenchmarks ==
    /\ op = "main" /\ pc = "benchmarks"
    /\ \E file \in BenchmarkFiles :
          \E run \in {load_benchmarks(file)} :
              /\ effects' = effects \o Staged("benchmarks", run.effects)
              /\ world' = [world EXCEPT !.benchmarks = file]
              /\ IF run.ret.kind # "ok" THEN Ends(MainHandler(run.ret.kind))
                 ELSE IF ~Sized(run.ret.value) THEN Ends(MainHandler("TypeError"))
                 ELSE Advance("financials",
                              [locals EXCEPT !.benchmark_data = run.ret.value])
    /\ UNCHANGED <<op, arg, memo_file, session_state>>

\* main.py 97-117
MainAnalyzeFinancials ==
    /\ op = "main" /\ pc = "financials"
    /\ \E file \in CsvFiles :
          \E result \in {IF file.kind = "missing" THEN Raise("FileNotFoundError")
                         ELSE analyze_financials(file)} :
              /\ world' = [world EXCEPT !.csv = file]
              /\ IF result.kind = "ok"
                 THEN Advance("memo",
                              [locals EXCEPT !.financial_metrics = result.value])
                 ELSE Ends(MainHandler(result.kind))
    /\ UNCHANGED <<op, arg, effects, memo_file, session_state>>

\* main.py 119-131
MainGenerateMemo ==
    /\ op = "main" /\ pc = "memo"
    /\ \E reply \in MemoReplies :
          \E run \in {generate_memo(locals.company_profile,
                                    locals.financial_metrics,
                                    locals.benchmark_data, EnvOf(reply), memo_file)} :
              /\ effects' = effects \o Staged("memo", run.effects)
              /\ world' = [world EXCEPT !.memo_llm = Asked(run, PostChat, reply)]
              /\ memo_file' = run.file
              /\ IF run.ret.kind = "ok" THEN Ends(MainSuccess)
                 ELSE Ends(MainHandler(run.ret.kind))
    /\ UNCHANGED <<op, arg, session_state>>

\* the operator starts the console program again
MainRunAgain ==
    /\ op = "main" /\ pc = "done"
    /\ \E i \in ConsoleInputs, c \in Credentials :
          arg' = [stdin |-> i, api_key |-> c.api_key, group_id |-> c.group_id]
    /\ pc' = "start"
    /\ world' = FreshWorld(ret)
    /\ effects' = <<>>
    /\ ret' = Pending
    /\ locals' = NoLocals
    /\ UNCHANGED <<op, memo_file, session_state>>

(***************************************************************************)
(* app.py: run_pipeline                                                    *)
(***************************************************************************)
WriteTemp == "write temporary csv"

UnlinkTemp == "unlink temporary csv"

\* st.error(...) and return
Shown(e) == [kind |-> "st.error", error |-> e]

\* an exception run_pipeline does not catch ends the script run
Uncaught(e) == [kind |-> "uncaught", error |-> e]

Returned == [kind |-> "returned"]

\* app.py 48-53
AppCheckInputs ==
    /\ op = "run_pipeline" /\ pc = "start"
    /\ IF arg.startup_description = <<>> \/ strip(arg.startup_description) = <<>>
       THEN Ends(Shown("no description"))
       ELSE IF arg.csv_file = None THEN Ends(Shown("no csv"))
       ELSE Advance("profile", locals)
    /\ UNCHANGED <<op, arg, world, effects, memo_file, session_state>>

\* the profile is stored as soon as it is extracted
AppExtractProfile_stores_at_once ==
    /\ op = "run_pipeline" /\ pc = "profile"
    /\ \E reply \in ProfileReplies :
          \E run \in {extract_company_profile(strip(arg.startup_description),
                                              EnvOf(reply))} :
              /\ effects' = effects \o Staged("profile", run.effects)
              /\ world' = [world EXCEPT
                              !.profile_llm = Asked(run, PostChat, reply)]
              /\ IF run.ret.kind = "ok"
                 THEN /\ Advance("competitors",
                                 [locals EXCEPT !.company_profile = run.ret.value])
                      /\ session_state' = [session_state EXCEPT
                                              !.company_profile = run.ret.value]
                 ELSE Ends(Uncaught(run.ret.kind)) /\ session_state' = session_state
    /\ UNCHANGED <<op, arg, memo_file>>

\* app.py 55-56
AppExtractProfile ==
    /\ op = "run_pipeline" /\ pc = "profile"
    /\ \E reply \in ProfileReplies :
          \E run \in {extract_company_profile(strip(arg.startup_description),
                                              EnvOf(reply))} :
              /\ effects' = effects \o Staged("profile", run.effects)
              /\ world' = [world EXCEPT
                              !.profile_llm = Asked(run, PostChat, reply)]
              /\ IF run.ret.kind = "ok"
                 THEN Advance("competitors",
                              [locals EXCEPT !.company_profile = run.ret.value])
                 ELSE Ends(Uncaught(run.ret.kind))
    /\ UNCHANGED <<op, arg, memo_file, session_state>>

\* app.py 58-65
AppFindCompetitors ==
    /\ op = "run_pipeline" /\ pc = "competitors"
    /\ \E reply \in PipelineRegistryReplies :
          \E run \in {LookUp(locals.company_profile, reply)} :
              /\ effects' = effects \o Staged("competitors", run.effects)
              /\ world' = [world EXCEPT
                              !.registry = Asked(run, GetRegistry, reply)]
              /\ IF run.ret.kind = "ok"
                 THEN Advance("benchmarks",
                              [locals EXCEPT !.competitors = run.ret.value])
                 ELSE Ends(Uncaught(run.ret.kind))
    /\ UNCHANGED <<op, arg, memo_file, session_state>>

\* app.py 67-71
AppLoadBenchmarks ==
    /\ op = "run_pipeline" /\ pc = "benchmarks"
    /\ \E file \in BenchmarkFiles :
          \E run \in {load_benchmarks(file)} :
              /\ effects' = effects \o Staged("benchmarks", run.effects)
              /\ world' = [world EXCEPT !.benchmarks = file]
              /\ IF run.ret.kind = "ok"
                 THEN Advance("financials",
                              [locals EXCEPT !.benchmark_data = run.ret.value])
                 ELSE IF "FileNotFoundError" \in Bases(run.ret.kind)
                 THEN Ends(Shown(run.ret.kind))
                 ELSE Ends(Uncaught(run.ret.kind))
    /\ UNCHANGED <<op, arg, memo_file, session_state>>

\* app.py 73-84
AppAnalyzeFinancials ==
    /\ op = "run_pipeline" /\ pc = "financials"
    /\ \E result \in {analyze_financials(arg.csv_file)} :
           /\ effects' = effects \o Staged("financials", <<WriteTemp, UnlinkTemp>>)
           /\ world' = [world EXCEPT !.csv = arg.csv_file]
           /\ IF result.kind = "ok"
              THEN Advance("memo",
                           [locals EXCEPT !.financial_metrics = result.value])
              ELSE IF {"ValueError", "FileNotFoundError"} \cap Bases(result.kind) # {}
              THEN Ends(Shown(result.kind))
              ELSE Ends(Uncaught(result.kind))
    /\ UNCHANGED <<op, arg, memo_file, session_state>>

\* app.py 86-96
AppGenerateMemo ==
    /\ op = "run_pipeline" /\ pc = "memo"
    /\ \E reply \in MemoReplies :
          \E run \in {generate_memo(locals.company_profile,
                                    locals.financial_metrics,
                                    locals.benchmark_data, EnvOf(reply), memo_file)} :
              /\ effects' = effects \o Staged("memo", run.effects)
              /\ world' = [world EXCEPT !.memo_llm = Asked(run, PostChat, reply)]
              /\ memo_file' = run.file
              /\ IF run.ret.kind = "ok"
                 THEN /\ pc' = "done"
                      /\ ret' = Returned
                      /\ locals' = [locals EXCEPT !.memo_text = JStr(run.ret.value)]
                      /\ session_state' =
                             [company_profile |-> locals.company_profile,
                              competitors |-> locals.competitors,
                              financial_metrics |-> locals.financial_metrics,
                              memo_text |-> JStr(run.ret.value)]
                 ELSE Ends(Uncaught(run.ret.kind)) /\ session_state' = session_state
    /\ UNCHANGED <<op, arg>>

\* the user presses "Run analysis" again in the same session
AppRunAgain ==
    /\ op = "run_pipeline" /\ pc = "done"
    /\ \E d \in {<<>>, D_Spaces, D_Text, D_Padded},
          f \in {None} \cup UploadedFiles, c \in Credentials :
          arg' = [startup_description |-> d, csv_file |-> f,
                  api_key |-> c.api_key, group_id |-> c.group_id]
    /\ pc' = "start"
    /\ world' = FreshWorld(Pending)
    /\ effects' = <<>>
    /\ ret' = Pending
    /\ locals' = NoLocals
    /\ UNCHANGED <<op, memo_file, session_state>>

PipelineNext ==
    \/ MainLoadDescription
    \/ MainExtractProfile
    \/ MainFindCompetitors
    \/ MainLoadBenchmarks
    \/ MainAnalyzeFinancials
    \/ MainGenerateMemo
    \/ MainRunAgain
    \/ AppCheckInputs
    \/ AppExtractProfile
    \/ AppFindCompetitors
    \/ AppLoadBenchmarks
    \/ AppAnalyzeFinancials
    \/ AppGenerateMemo
    \/ AppRunAgain

Pipeline == PipelineInit /\ [][PipelineNext]_vars

(***************************************************************************)
(* Claims about finance.py                                                 *)
(***************************************************************************)
Done(o) == pc = "done" /\ op = o

Negative(x) == x.n < 0

\* q = a / b, stated without the division (b # 0)
IsQuotient(q, a, b) == q.n * b.n * a.d = a.n * b.d * q.d

\* the reference function of calculate_runway: ValueError and no value for a
\* negative argument, else 0 at zero burn and the quotient at positive burn
RunwayAgrees(r, cash_balance, monthly_burn) ==
    IF Negative(cash_balance) \/ Negative(monthly_burn)
    THEN r.kind = "ValueError" /\ "value" \notin DOMAIN r
    ELSE /\ r.kind = "ok"
         /\ IF monthly_burn.n = 0 THEN r.value = Zero
            ELSE IsQuotient(r.value, cash_balance, monthly_burn)

ReadFrame == arg.file.df

IsTable == arg.file.kind = "table"

Usable(df) == df.rows # <<>> /\ Required \subseteq df.columns

ExpenseTotal(df) ==
    LET Total[k \in 0..Len(df.rows)] ==
            IF k = 0 THEN 0 ELSE Total[k - 1] + df.rows[k].expenses
    IN  Total[Len(df.rows)]

LastCash(df) == df.rows[Len(df.rows)].cash_balance

\* m is what the claim says analyze returns for df
MetricsAgree(m, df) ==
    LET cash == FromInt(LastCash(df))
    IN  /\ m.burn.n * Len(df.rows) = ExpenseTotal(df) * m.burn.d
        /\ 5 * m.downside_burn.n * m.burn.d = 6 * m.burn.n * m.downside_burn.d
        /\ RunwayAgrees(Ok(m.runway), cash, m.burn)
        /\ RunwayAgrees(Ok(m.runway_at_downside), cash, m.downside_burn)

\* C2: on a non-empty table with the three columns analyze returns burn =
\* the mean of the expenses of all rows, runway = calculate_runway(last
\* row's cash_balance, burn), downside_burn = burn plus 20%, and
\* runway_at_downside = calculate_runway(last cash_balance, downside_burn);
\* it returns whenever the expenses' total and the last cash_balance are not
\* negative, and the spec's example gives 1000, 10, 1200, 10000/1200.
C2_AnalyzeUsesAllExpensesAndLastCash ==
    (Done("analyze_financials") /\ IsTable /\ Usable(ReadFrame)) =>
        /\ ret.kind = "ok" => MetricsAgree(ret.value, ReadFrame)
        /\ (ExpenseTotal(ReadFrame) >= 0 /\ LastCash(ReadFrame) >= 0)
               => ret.kind = "ok"
        /\ (ExpenseTotal(ReadFrame) = 3000 /\ Len(ReadFrame.rows) = 3
                /\ LastCash(ReadFrame) = 10000)
               => ret = Ok([burn |-> FromInt(1000),
                            runway |-> FromInt(10),
                            downside_burn |-> FromInt(1200),
                            runway_at_downside |-> [n |-> 25, d |-> 3]])

\* C2 witness: a table whose months descend and whose first and last
\* cash_balance differ was analyzed
C2_Witness ==
    /\ Done("analyze_financials") /\ IsTable /\ Usable(ReadFrame)
    /\ Len(ReadFrame.rows) = 3
    /\ ReadFrame.rows[1].month > ReadFrame.rows[3].month
    /\ ReadFrame.rows[1].cash_balance = 0
    /\ ReadFrame.rows[2].cash_balance = 0
    /\ LastCash(ReadFrame) = 1
    /\ ExpenseTotal(ReadFrame) = 2
    /\ ret.kind = "ok"
    /\ ret.value.runway = [n |-> 3, d |-> 2]

\* C3: an empty table (no rows, or no bytes) or one that lacks a required
\* column makes calculate_burn and analyze fail with ValueError, with no
\* other exception and no metrics.
C3_EmptyOrIncompleteIsValueError ==
    /\ (Done("calculate_burn") /\ ~Usable(arg.df)) =>
           ret.kind = "ValueError" /\ "value" \notin DOMAIN ret
    /\ (Done("analyze_financials")
            /\ (arg.file.kind = "zero_bytes" \/ (IsTable /\ ~Usable(ReadFrame))))
           => ret.kind = "ValueError" /\ "value" \notin DOMAIN ret

\* C3 witness: analyze ended on a one-row table that has month and expenses
\* but no cash_balance
C3_Witness ==
    /\ Done("analyze_financials") /\ IsTable
    /\ ReadFrame.columns = {"month", "expenses"}
    /\ Len(ReadFrame.rows) = 1
    /\ ret.kind = "ValueError"

IncreaseUsed ==
    IF "increase_percent" \in DOMAIN arg THEN arg.increase_percent
    ELSE FromInt(20)

\* C11: simulate_downside fails with ValueError when either argument is
\* negative; otherwise it returns monthly_burn * (1 + increase_percent/100):
\* monthly_burn itself at 0 percent, 20 percent when the percentage is left
\* out, and 12000 for (10000, 20).
C11_DownsideMatchesReference ==
    Done("simulate_downside") =>
        /\ (Negative(arg.monthly_burn) \/ Negative(IncreaseUsed)) =>
               ret.kind = "ValueError" /\ "value" \notin DOMAIN ret
        /\ (~Negative(arg.monthly_burn) /\ ~Negative(IncreaseUsed)) =>
               /\ ret.kind = "ok"
               /\ 100 * ret.value.n * arg.monthly_burn.d * IncreaseUsed.d
                     = arg.monthly_burn.n * ret.value.d
                          * (100 * IncreaseUsed.d + IncreaseUsed.n)
               /\ IncreaseUsed = Zero => ret.value = arg.monthly_burn
        /\ (arg.monthly_burn = FromInt(10000) /\ IncreaseUsed = FromInt(20))
               => ret = Ok(FromInt(12000))

\* C11 witness: the percentage was left out and a burn of 10000 gave 12000
C11_Witness ==
    /\ Done("simulate_downside")
    /\ "increase_percent" \notin DOMAIN arg
    /\ arg.monthly_burn = FromInt(10000)
    /\ ret = Ok(FromInt(12000))

(***************************************************************************)
(* Claims about company.py                                                 *)
(***************************************************************************)
Blank(s) == \A i \in 1..Len(s) : s[i] \in {" ", "\n", "\t", "\r"}

\* a non-empty string with no whitespace at either end
Trimmed(s) ==
    /\ s # <<>>
    /\ s[1] \notin {" ", "\n", "\t", "\r"}
    /\ s[Len(s)] \notin {" ", "\n", "\t", "\r"}

\* C5 (as the spec states it): whatever mentioned_competitors holds (null, a
\* scalar, a list with empty, whitespace-only, null or non-string items),
\* the normalised list holds only non-empty trimmed strings, in input order;
\* null gives [], "Acme" gives ["Acme"], ["Acme", "", "Globex"] gives
\* ["Acme", "Globex"].
C5_CompetitorsNonEmptyTrimmed ==
    Done("ensure_competitors_list") =>
        /\ ret.kind = "ok"
        /\ \A i \in 1..Len(ret.value) : Trimmed(ret.value[i])
        /\ arg.value = JNull => ret.value = <<>>
        /\ arg.value = JStr(S_Acme) => ret.value = <<S_Acme>>
        /\ arg.value = JList(<<JStr(S_Acme), JStr(<<>>), JStr(S_GlobexPadded)>>)
              => ret.value = <<S_Acme, S_Globex>>

\* C6 (as the spec states it): a response that is one valid JSON object,
\* fenced or not, with or without prose around it, parses to the profile of
\* exactly that object: its five keys, absent ones null (the competitors
\* list empty), also when a string of the object holds a brace.
C6_ParsesEveryWrappedObject ==
    (Done("parse_profile_json") /\ arg.parts.body \in ObjectBodies) =>
        /\ ret.kind = "ok"
        /\ ret.value = NormalizeProfile(json_loads(arg.parts.body).value)

\* the error message carries the first 500 characters of the raw response
HasExcerpt(error, response) ==
    /\ "msg" \in DOMAIN error
    /\ \E i \in 1..Len(error.msg.fields) :
          error.msg.fields[i] = SubSeq(response, 1, IF Len(response) < 500
                                                    THEN Len(response) ELSE 500)

\* C7 (as the spec states it): a response that holds no valid JSON object
\* (unparseable, or a list, string, number) makes the parser fail with
\* ValueError, return no profile, and quote the first 500 characters of the
\* raw response in the message.
C7_ParseErrorQuotesResponse ==
    (Done("parse_profile_json") /\ arg.parts.body \in OtherBodies) =>
        /\ ret.kind = "ValueError"
        /\ "value" \notin DOMAIN ret
        /\ HasExcerpt(ret, arg.response)

\* C8: extraction on an empty or whitespace-only description returns the
\* profile with the four fields null and no competitors, and that execution
\* checks no credential and issues no language-model request.
C8_BlankDescriptionShortCircuits ==
    (Done("extract_company_profile") /\ Blank(arg.startup_description)) =>
        /\ ret = Ok([business_model |-> JNull,
                     customer_type |-> JNull,
                     stage |-> JNull,
                     milestone |-> JNull,
                     mentioned_competitors |-> <<>>])
        /\ effects = <<>>

\* C8 witness: a whitespace-only description was handled while no API key
\* was set and the endpoint was timing out
C8_Witness ==
    /\ Done("extract_company_profile")
    /\ arg.startup_description = D_Newlines
    /\ ~world.api_key
    /\ world.llm.kind = "timeout"
    /\ ret.kind = "ok"
    /\ effects = <<>>

\* the registry answered 200 with a JSON body of the documented shape
Listed ==
    /\ world.registry.kind = "response"
    /\ world.registry.status = 200
    /\ world.registry.json
    /\ \E l \in CompanyLists : world.registry.data = Listing(JList(l))

ListedCompanies == world.registry.data.pairs[1][2].pairs[1][2].items

NameValues ==
    {JStr(S_Acme), JStr(S_GlobexPadded), JStr(<<>>), JStr(S_Blank), JNull, JNum(7)}
        \cup {Numbered(i) : i \in 1..(MaxCompanies + 1)}

\* the entry is {company: {name: n}} with n a name that is not blank
HasName(e) ==
    \E n \in NameValues : e = Entry(n) /\ n.t # "null" /\ ~Blank(PyStr(n))

NameIn(e) == strip(PyStr(CHOOSE n \in NameValues : e = Entry(n)))

\* the names of the entries that have one, in response order, cut at 10
FirstTenNames(l) ==
    LET valid == {i \in 1..Len(l) : HasName(l[i])}
        Nth(k) == CHOOSE i \in valid : Cardinality({j \in valid : j < i}) = k - 1
        count == IF Cardinality(valid) > 10 THEN 10 ELSE Cardinality(valid)
    IN  [k \in 1..count |-> NameIn(l[Nth(k)])]

\* the request failed, or its answer is not of the documented shape
LookupFailed ==
    \/ world.registry.kind \in {"timeout", "connection_error"}
    \/ world.registry.status < 200
    \/ world.registry.status >= 300
    \/ ~world.registry.json
    \/ world.registry.data \in OddBodies

\* C9 (as the spec states it): competitor lookup never raises; a timeout or
\* network failure, a non-2xx status, a body that is not JSON or a JSON body
\* of the wrong shape gives the empty list.
C9_LookupNeverRaises ==
    Done("find_competitors") =>
        /\ ret.kind = "ok"
        /\ (~Blank(arg.keywords) /\ LookupFailed) => ret.value = <<>>

\* C10 (as the spec states it): the returned list has at most 10 elements,
\* pairwise distinct, each a non-empty trimmed name in response order; entries
\* without a non-empty name are skipped; collection stops at 10 names.
C10_DistinctFirstTenNames ==
    (Done("find_competitors") /\ ret.kind = "ok") =>
        /\ Len(ret.value) <= 10
        /\ \A i \in 1..Len(ret.value) : Trimmed(ret.value[i])
        /\ \A i, j \in 1..Len(ret.value) : i # j => ret.value[i] # ret.value[j]
        /\ (~Blank(arg.keywords) /\ Listed) =>
               ret.value = FirstTenNames(ListedCompanies)

\* C10 (amended): whenever competitor lookup returns, its list has at most 10
\* elements, each a non-empty trimmed name in response order, a name listed
\* twice being returned twice; entries without a non-empty name are skipped;
\* collection stops at 10 names.
C10_FirstTenNamesInOrder ==
    (Done("find_competitors") /\ ret.kind = "ok") =>
        /\ Len(ret.value) <= 10
        /\ \A i \in 1..Len(ret.value) : Trimmed(ret.value[i])
        /\ (~Blank(arg.keywords) /\ Listed) =>
               ret.value = FirstTenNames(ListedCompanies)

\* C10 witness: more than 10 entries with a name were listed, between them
\* entries with a blank name, and the lookup returned 10 names
C10_Witness ==
    /\ Done("find_competitors")
    /\ ~Blank(arg.keywords)
    /\ Listed
    /\ Cardinality({i \in 1..Len(ListedCompanies) : HasName(ListedCompanies[i])}) > 10
    /\ \E i \in 1..Len(ListedCompanies) : ~HasName(ListedCompanies[i])
    /\ ret.kind = "ok"
    /\ Len(ret.value) = 10

(***************************************************************************)
(* Claims about the pipeline runs (memo.py, main.py, app.py)               *)
(***************************************************************************)
Issued(stage, effect) ==
    \E i \in 1..Len(effects) : effects[i] = <<stage, effect>>

\* the stages in the order of the data flow
StageRank(stage) ==
    CASE stage = "profile" -> 1
      [] stage = "competitors" -> 2
      [] stage = "benchmarks" -> 3
      [] stage = "financials" -> 4
      [] OTHER -> 5

RunEnded == pc = "done"

RunSucceeded ==
    /\ RunEnded
    /\ \/ ret.kind = "returned"
       \/ ret.kind = "exit" /\ ret.status = 0

RunFailed == RunEnded /\ ~RunSucceeded

\* the model answered the memo request with a text
MemoReturnedText ==
    /\ world.memo_llm.kind = "content"
    /\ world.memo_llm.content.t = "str"

\* C12: in every run of either flow the effects come stage after stage; the
\* competitor lookup is issued only once the profile is extracted; the memo
\* request is issued only once the profile is extracted and the financials
\* are analyzed; the memo file is written at most once a run, only after the
\* memo request returned text; a run that fails at any stage leaves the memo
\* file as it was, and a successful run leaves it holding the new memo.
C12_MemoWrittenLastAndOnlyOnSuccess ==
    /\ \A i, j \in 1..Len(effects) :
          i < j => StageRank(effects[i][1]) <= StageRank(effects[j][1])
    /\ Issued("competitors", GetRegistry) => locals.company_profile # None
    /\ Issued("memo", PostChat) =>
          locals.company_profile # None /\ locals.financial_metrics # None
    /\ Cardinality({i \in 1..Len(effects) : effects[i][2] = WriteMemo}) <= 1
    /\ \A i \in 1..Len(effects) :
          effects[i][2] = WriteMemo =>
              /\ MemoReturnedText
              /\ \E j \in 1..(i - 1) : effects[j] = <<"memo", PostChat>>
    /\ (~RunEnded \/ RunFailed) => memo_file = world.before.memo_file
    /\ RunSucceeded =>
          /\ MemoReturnedText
          /\ memo_file = JStr(strip(world.memo_llm.content.chars))

\* C12 witness: a memo was on file from an earlier run when a console run
\* got as far as the memo request, which failed
C12_Witness ==
    /\ op = "main"
    /\ RunFailed
    /\ Issued("memo", PostChat)
    /\ world.memo_llm.kind = "timeout"
    /\ world.before.memo_file = JStr(SubSeq(M_A, 2, 9))
    /\ memo_file = JStr(SubSeq(M_A, 2, 9))

\* the error categories of the console flow
Category(e) ==
    CASE e = "FileNotFoundError" -> "not-found"
      [] e \in {"ValueError", "JSONDecodeError"} -> "invalid"
      [] e = "RuntimeError" -> "runtime"
      [] e = "KeyboardInterrupt" -> "cancelled"
      [] e = "none" -> "none"
      [] OTHER -> "unexpected"

\* a failed console run went no further than the stage that failed
HaltedAtFailure ==
    /\ locals.company_profile = None =>
          ~\E i \in 1..Len(effects) : StageRank(effects[i][1]) > 1
    /\ locals.benchmark_data = None =>
          ~\E i \in 1..Len(effects) : StageRank(effects[i][1]) > 3
    /\ locals.financial_metrics = None =>
          ~\E i \in 1..Len(effects) : StageRank(effects[i][1]) > 4
    /\ ~Issued("memo", WriteMemo)

\* C13 (as the spec states it): a fatal error of any stage of the console
\* flow reaches the outermost handler, which halts the run, and the exit
\* status differs between the categories not-found, invalid input and
\* upstream runtime.
C13_DistinctStatusPerCategory ==
    (op = "main" /\ RunEnded) =>
        /\ ret.kind = "exit"
        /\ ret.error # "none" => HaltedAtFailure
        /\ (/\ world.before.exit.kind = "exit"
            /\ Category(ret.error) \in {"not-found", "invalid", "runtime"}
            /\ Category(world.before.exit.error)
                   \in {"not-found", "invalid", "runtime"}
            /\ Category(ret.error) # Category(world.before.exit.error))
               => ret.status # world.before.exit.status

\* C13 (amended): a fatal error of any stage of the console flow reaches the
\* outermost handler, which halts the run and reports a message labelled by
\* category; the exit status is 1 for every error category alike (130 for
\* a keyboard interrupt, 0 for a run without error).
C13_LabelPerCategoryStatusOne ==
    (op = "main" /\ RunEnded) =>
        /\ ret.kind = "exit"
        /\ ret.error # "none" => HaltedAtFailure
        /\ ret.status = CASE Category(ret.error) = "none" -> 0
                          [] Category(ret.error) = "cancelled" -> 130
                          [] OTHER -> 1
        /\ ret.label = CASE Category(ret.error) = "not-found" -> "Error (missing file)"
                         [] Category(ret.error) = "invalid" -> "Error (invalid input)"
                         [] Category(ret.error) = "runtime" -> "Error (API or runtime)"
                         [] Category(ret.error) = "cancelled" -> "Cancelled by user."
                         [] Category(ret.error) = "none" -> "Success!"
                         [] OTHER -> "Unexpected error"

\* C13 witness: a console run that ended on a missing file is followed by
\* one that ended on an upstream runtime error
C13_Witness ==
    /\ op = "main" /\ RunEnded
    /\ world.before.exit.kind = "exit"
    /\ world.before.exit.error = "FileNotFoundError"
    /\ ret.kind = "exit"
    /\ ret.error = "RuntimeError"
    /\ ret.status = 1

StoredFromLocals ==
    [company_profile |-> locals.company_profile,
     competitors |-> locals.competitors,
     financial_metrics |-> locals.financial_metrics,
     memo_text |-> locals.memo_text]

\* C14: in the form-based flow the four stored results change only at the
\* end of a run that succeeded, all together, to the results of that run; a
\* run that fails at any stage (missing input, profile extraction,
\* benchmarks, financial analysis, memo generation) leaves them as they
\* were, so they are the initial ones or those of one single run.
C14_StoredResultsReplacedTogether ==
    op = "run_pipeline" =>
        /\ ~RunSucceeded => session_state = world.before.session_state
        /\ RunSucceeded =>
              /\ session_state = StoredFromLocals
              /\ locals.company_profile # None
              /\ locals.financial_metrics # None
              /\ locals.memo_text # None
        /\ \/ session_state = InitialSessionState
           \/ /\ session_state.company_profile # None
              /\ session_state.financial_metrics # None
              /\ session_state.memo_text # None

\* C14 witness: with the results of an earlier run stored, a run with
\* another profile failed in memo generation
C14_Witness ==
    /\ op = "run_pipeline"
    /\ RunFailed
    /\ ret.kind = "uncaught"
    /\ locals.financial_metrics # None
    /\ session_state # InitialSessionState
    /\ session_state.company_profile # locals.company_profile
    /\ session_state = world.before.session_state

=============================================================================
